---- MODULE Spec2Model ----
(***************************************************************************)
(* Model of notion-core's toolchain store (toolchain/mod.rs), the Windows  *)
(* path layout (path/windows.rs) and the error taxonomy (error.rs).        *)
(*                                                                         *)
(* One process at a time owns a LazyToolchain; the user platform file and  *)
(* the OS answer for the local data directory are the environment.         *)
(***************************************************************************)
EXTENDS Integers, Sequences, FiniteSets, TLC

VARIABLES
    file,       \* the user platform file: <<>> when absent, <<text>> when present
    cell,       \* LazyToolchain.toolchain: <<>> when empty, <<Toolchain>> when filled
    dataDir,    \* whether dirs::data_local_dir() currently answers Some(..)
    last,       \* the call made by the last step and what it did
    created,    \* this process's load created the platform file (touch)
    allOk,      \* every mutator / save call on the cached Toolchain returned Ok
    unsaved,    \* save has not been called on the cached Toolchain since its load
    shown       \* the ErrorDetails value last rendered, its message and exit code

vars == <<file, cell, dataDir, last, created, allOk, unsaved, shown>>

----------------------------------------------------------------------------
(* Bounds *)

\* semver versions are the values 1..MaxVer (only equality is used on them)
MaxVer == 2

\* payload strings of ErrorDetails have at most this many characters
MaxPayloadLen == 2

----------------------------------------------------------------------------
(* Values *)

\* Option::None of an optional Version
None == 0

Versions == 1..MaxVer

OptVersions == Versions \cup {None}

\* PlatformSpec { node_runtime, npm: Option<Version>, yarn: Option<Version> }
PlatformSpec == [node_runtime : Versions, npm : OptVersions, yarn : OptVersions]

\* Option<PlatformSpec>: <<>> is None, <<p>> is Some(p)
NoPlatform == <<>>

OptPlatforms == {NoPlatform} \cup {<<p>> : p \in PlatformSpec}

\* the file does not exist
Absent == <<>>

\* Display of a semver Version
VersionStr(v) == ToString(v) \o ".0.0"

----------------------------------------------------------------------------
(* serial::Platform and its JSON text *)

\* serial::NodeVersion { runtime: String, npm: Option<String> } as Option
SerialNodes == {<<>>} \cup {<<n>> : n \in [runtime : Versions, npm : OptVersions]}

\* serial::Platform { node: Option<NodeVersion>, yarn: Option<String> }
SerialPlatforms == [node : SerialNodes, yarn : OptVersions]

\* PlatformSpec::to_serial
to_serial(p) ==
    [node |-> <<[runtime |-> p.node_runtime, npm |-> p.npm]>>, yarn |-> p.yarn]

JsonOptVersion(v) ==
    IF v = None THEN "null" ELSE "\"" \o VersionStr(v) \o "\""

\* serial::Platform::to_json: the one text the serializer produces for a document
to_json(s) ==
    "{\n  \"node\": "
    \o (IF s.node = <<>>
        THEN "null"
        ELSE "{\n    \"runtime\": \"" \o VersionStr(s.node[1].runtime)
             \o "\",\n    \"npm\": " \o JsonOptVersion(s.node[1].npm) \o "\n  }")
    \o ",\n  \"yarn\": " \o JsonOptVersion(s.yarn) \o "\n}"

\* another JSON text of the same document: no whitespace, absent fields omitted
CompactJson(s) ==
    LET node == IF s.node = <<>>
                THEN ""
                ELSE "\"node\":{\"runtime\":\"" \o VersionStr(s.node[1].runtime) \o "\""
                     \o (IF s.node[1].npm = None
                         THEN ""
                         ELSE ",\"npm\":\"" \o VersionStr(s.node[1].npm) \o "\"")
                     \o "}"
        yarn == IF s.yarn = None THEN "" ELSE "\"yarn\":\"" \o VersionStr(s.yarn) \o "\""
        sep  == IF node # "" /\ yarn # "" THEN "," ELSE ""
    IN  "{" \o node \o sep \o yarn \o "}"

\* the JSON texts of a document the model knows
JsonTexts(s) == {to_json(s), CompactJson(s)}

\* texts that are not a platform document: broken JSON, and a version that is no semver
CorruptTexts == {"{", "{\"node\":{\"runtime\":\"latest\"}}"}

\* the texts that are a JSON text of a platform document
JsonDocuments == UNION {JsonTexts(s) : s \in SerialPlatforms}

\* the document each of them reads as
ReadJson == [t \in JsonDocuments |-> CHOOSE s \in SerialPlatforms : t \in JsonTexts(s)]

\* serial::Platform::from_json: the empty text reads as the empty object
from_json(src) ==
    LET text == IF src = "" THEN "{}" ELSE src
    IN  IF text \in JsonDocuments
        THEN [ok |-> TRUE, doc |-> <<ReadJson[text]>>]
        ELSE [ok |-> FALSE, doc |-> <<>>]

\* serial::Platform::into_image: no node, no platform
into_image(s) ==
    IF s.node = <<>>
    THEN NoPlatform
    ELSE <<[node_runtime |-> s.node[1].runtime, npm |-> s.node[1].npm, yarn |-> s.yarn]>>

----------------------------------------------------------------------------
(* Path layout (Windows) *)

\* the path the OS reports for the local data directory
LocalAppData == <<"C:", "Users", "johndoe", "AppData", "Local">>

Tools == {"node", "yarn"}

\* `r?.join(parts)`: the error of r, or its path extended
Join(r, parts) ==
    IF r.res = "Ok" THEN [res |-> "Ok", path |-> r.path \o parts] ELSE r

\* default_notion_home that falls back to a relative home when the OS reports none
default_notion_home_fallback ==
    IF dataDir
    THEN [res |-> "Ok", path |-> LocalAppData \o <<"Notion">>]
    ELSE [res |-> "Ok", path |-> <<"Notion">>]

\* default_notion_home: dirs::data_local_dir().ok_or(NoLocalDataDir)?.join("Notion")
default_notion_home ==
    IF dataDir
    THEN [res |-> "Ok", path |-> LocalAppData \o <<"Notion">>]
    ELSE [res |-> "NoLocalDataDir", path |-> <<>>]

\* path::notion_home: the platform's default home
notion_home == default_notion_home

\* path::shim_dir: <home>/bin
shim_dir == Join(notion_home, <<"bin">>)

\* path::node_image_dir: <home>/tools/image/node/<node>/<npm>
node_image_dir(node, npm) ==
    Join(notion_home, <<"tools", "image", "node", node, npm>>)

\* path::user_platform_file: <home>/tools/user/platform.json
user_platform_file == Join(notion_home, <<"tools", "user", "platform.json">>)

node_image_bin_dir(node, npm) == node_image_dir(node, npm)

shim_executable == Join(notion_home, <<"shim.exe">>)

notion_file == Join(notion_home, <<"notion.exe">>)

shim_file(toolname) == Join(shim_dir, <<toolname \o ".exe">>)

----------------------------------------------------------------------------
(* Records of calls *)

\* what a step called and what the call did: its result, whether it called save,
\* what happened to the file, whether it ran Toolchain::current, the path it
\* returned; `repeat`: the step before made the same call with the same argument;
\* `writes`: the saves called by this call and, when it repeats one, by that one too;
\* `first`: no save had been called on the Toolchain since its load
Call(name, arg, res, saved, disk, ran, out) ==
    LET repeat == last.name = name /\ last.arg = arg
        mine == IF saved THEN 1 ELSE 0
        before == IF repeat /\ last.saved THEN 1 ELSE 0
    IN  [name |-> name, arg |-> arg, res |-> res, saved |-> saved, disk |-> disk,
         ran |-> ran, out |-> out, repeat |-> repeat, writes |-> mine + before,
         first |-> unsaved]

NoCall ==
    [name |-> "new", arg |-> <<>>, res |-> "Ok", saved |-> FALSE, disk |-> "none",
     ran |-> FALSE, out |-> <<>>, repeat |-> FALSE, writes |-> 0, first |-> TRUE]

NotShown == [variant |-> "", payload |-> <<>>, message |-> "", code |-> ""]

Mutators == {"set_active_node", "set_active_yarn", "set_active_npm"}

----------------------------------------------------------------------------
(* Toolchain *)

\* outcomes of the file operations of a load: all succeed, touch fails before the
\* file exists, or the read fails once the file is there
LoadIo == {"ok", "touch_fail", "read_fail"}

\* outcomes of the file operations of a save: all succeed, File::create fails,
\* or write_all fails after File::create truncated the file
SaveIo == {"ok", "create_fail", "write_fail"}

\* fs::touch: creates the file, empty, when it is absent
touch(f) == IF f = Absent THEN <<"">> ELSE f

\* Toolchain::current that takes a text it cannot parse for "no platform"
current_lenient(io) ==
    IF user_platform_file.res # "Ok"
    THEN [res |-> user_platform_file.res, toolchain |-> <<>>, file |-> file]
    ELSE IF io = "touch_fail"
    THEN [res |-> "IoError", toolchain |-> <<>>, file |-> file]
    ELSE IF io = "read_fail"
    THEN [res |-> "IoError", toolchain |-> <<>>, file |-> touch(file)]
    ELSE LET src == touch(file)[1]
             parsed == from_json(src)
         IN  [res |-> "Ok",
              toolchain |-> <<[platform |-> IF parsed.ok THEN into_image(parsed.doc[1])
                                            ELSE NoPlatform]>>,
              file |-> touch(file)]

\* Toolchain::current that writes the empty object into the file it creates
current_writes_sentinel(io) ==
    LET made == IF file = Absent THEN <<"{}">> ELSE file
    IN  IF user_platform_file.res # "Ok"
        THEN [res |-> user_platform_file.res, toolchain |-> <<>>, file |-> file]
        ELSE IF io = "touch_fail"
        THEN [res |-> "IoError", toolchain |-> <<>>, file |-> file]
        ELSE IF io = "read_fail"
        THEN [res |-> "IoError", toolchain |-> <<>>, file |-> made]
        ELSE LET parsed == from_json(made[1])
             IN  IF ~parsed.ok
                 THEN [res |-> "ParseError", toolchain |-> <<>>, file |-> made]
                 ELSE [res |-> "Ok",
                       toolchain |-> <<[platform |-> into_image(parsed.doc[1])]>>,
                       file |-> made]

\* Toolchain::current under file-operation outcome io:
\* the result, the Toolchain when Ok, and the file afterwards
current(io) ==
    IF user_platform_file.res # "Ok"
    THEN [res |-> user_platform_file.res, toolchain |-> <<>>, file |-> file]
    ELSE IF io = "touch_fail"
    THEN [res |-> "IoError", toolchain |-> <<>>, file |-> file]
    ELSE IF io = "read_fail"
    THEN [res |-> "IoError", toolchain |-> <<>>, file |-> touch(file)]
    ELSE LET src == touch(file)[1]
             parsed == from_json(src)
         IN  IF ~parsed.ok
             THEN [res |-> "ParseError", toolchain |-> <<>>, file |-> touch(file)]
             ELSE [res |-> "Ok",
                   toolchain |-> <<[platform |-> into_image(parsed.doc[1])]>>,
                   file |-> touch(file)]

\* save that writes the empty object whatever the platform is
SaveText_sentinel(platform) == "{}"

\* the match of Toolchain::save: the serialized platform, or "{}" for None
SaveTexts ==
    [platform \in OptPlatforms |->
        IF platform # NoPlatform THEN to_json(to_serial(platform[1])) ELSE "{}"]

\* the bytes Toolchain::save writes for a platform
SaveText(platform) == SaveTexts[platform]

\* save that opens the file for appending instead of File::create
save_appends(platform, io) ==
    IF user_platform_file.res # "Ok"
    THEN [res |-> user_platform_file.res, file |-> file, disk |-> "none"]
    ELSE IF io = "create_fail"
    THEN [res |-> "IoError", file |-> file, disk |-> "none"]
    ELSE IF io = "write_fail"
    THEN [res |-> "IoError", file |-> touch(file), disk |-> "none"]
    ELSE [res |-> "Ok", file |-> <<touch(file)[1] \o SaveText(platform)>>,
          disk |-> "written"]

\* Toolchain::save of `platform` under file-operation outcome io:
\* the result, the file afterwards and what happened to the file
save(platform, io) ==
    IF user_platform_file.res # "Ok"
    THEN [res |-> user_platform_file.res, file |-> file, disk |-> "none"]
    ELSE IF io = "create_fail"
    THEN [res |-> "IoError", file |-> file, disk |-> "none"]
    ELSE IF io = "write_fail"
    THEN [res |-> "IoError", file |-> <<"">>, disk |-> "truncated"]
    ELSE [res |-> "Ok", file |-> <<SaveText(platform)>>,
          disk |-> IF file = <<SaveText(platform)>> THEN "same" ELSE "written"]

\* a mutator tail that puts the old platform back when its save fails
Commit_rollback(name, arg, platform, dirty) ==
    \E io \in IF dirty THEN SaveIo ELSE {"ok"} :
        LET s == IF dirty THEN save(platform, io)
                 ELSE [res |-> "Ok", file |-> file, disk |-> "none"]
        IN  /\ cell' = IF s.res = "Ok" THEN <<[platform |-> platform]>> ELSE cell
            /\ file' = s.file
            /\ allOk' = (allOk /\ s.res = "Ok")
            /\ unsaved' = (unsaved /\ ~dirty)
            /\ last' = Call(name, arg, s.res, dirty, s.disk, FALSE, <<>>)
            /\ UNCHANGED <<dataDir, created, shown>>

\* the tail of every mutator: `if dirty { self.save()?; } Ok(())` with the
\* in-memory platform already updated
Commit(name, arg, platform, dirty) ==
    \E io \in IF dirty THEN SaveIo ELSE {"ok"} :
        LET s == IF dirty THEN save(platform, io)
                 ELSE [res |-> "Ok", file |-> file, disk |-> "none"]
        IN  /\ cell' = <<[platform |-> platform]>>
            /\ file' = s.file
            /\ allOk' = (allOk /\ s.res = "Ok")
            /\ unsaved' = (unsaved /\ ~dirty)
            /\ last' = Call(name, arg, s.res, dirty, s.disk, FALSE, <<>>)
            /\ UNCHANGED <<dataDir, created, shown>>

\* LazyToolchain::new in a fresh process
NewProcess ==
    /\ cell' = <<>>
    /\ created' = FALSE
    /\ allOk' = TRUE
    /\ unsaved' = TRUE
    /\ last' = NoCall
    /\ UNCHANGED <<file, dataDir, shown>>

\* try_borrow_with / try_borrow_mut_with: the cached value, or Toolchain::current
\* whose value is cached when it is Ok
LazyAccess(name, io) ==
    IF cell # <<>>
    THEN /\ last' = Call(name, <<>>, "Ok", FALSE, "none", FALSE, <<>>)
         /\ UNCHANGED <<file, cell, dataDir, created, allOk, unsaved, shown>>
    ELSE LET c == current(io)
         IN  /\ cell' = c.toolchain
             /\ file' = c.file
             /\ created' = (created \/ (file = Absent /\ c.file # Absent))
             /\ allOk' = TRUE
             /\ unsaved' = TRUE
             /\ last' = Call(name, <<>>, c.res, FALSE,
                             IF file = Absent /\ c.file # Absent THEN "created" ELSE "none",
                             TRUE, <<>>)
             /\ UNCHANGED <<dataDir, shown>>

\* get that runs Toolchain::current on every access
get_reloads ==
    \E io \in LoadIo :
        LET c == current(io)
        IN  /\ cell' = IF c.res = "Ok" THEN c.toolchain ELSE cell
            /\ file' = c.file
            /\ created' = (created \/ (file = Absent /\ c.file # Absent))
            /\ allOk' = TRUE
            /\ unsaved' = TRUE
            /\ last' = Call("get", <<>>, c.res, FALSE, "none", TRUE, <<>>)
            /\ UNCHANGED <<dataDir, shown>>

\* LazyToolchain::get
get == \E io \in IF cell = <<>> THEN LoadIo ELSE {"ok"} : LazyAccess("get", io)

\* LazyToolchain::get_mut
get_mut == \E io \in IF cell = <<>> THEN LoadIo ELSE {"ok"} : LazyAccess("get_mut", io)

\* Toolchain::set_active_node(NodeVersion { runtime, npm })
set_active_node(runtime, npm) ==
    /\ cell # <<>>
    /\ LET platform == cell[1].platform
           dirty1 == platform # NoPlatform /\ platform[1].node_runtime # runtime
           dirty2 == platform # NoPlatform /\ platform[1].npm # npm
           after == IF platform # NoPlatform
                    THEN <<[platform[1] EXCEPT !.node_runtime = runtime, !.npm = npm]>>
                    ELSE <<[node_runtime |-> runtime, npm |-> npm, yarn |-> None]>>
       IN  Commit("set_active_node", <<runtime, npm>>, after,
                  dirty1 \/ dirty2 \/ platform = NoPlatform)

\* set_active_yarn that saves whenever a platform is there, without comparing
set_active_yarn_uncompared(yarn_version) ==
    /\ cell # <<>>
    /\ LET platform == cell[1].platform
           dirty == platform # NoPlatform
           after == IF dirty THEN <<[platform[1] EXCEPT !.yarn = yarn_version]>>
                    ELSE platform
       IN  Commit("set_active_yarn", <<yarn_version>>, after, dirty)

\* Toolchain::set_active_yarn(yarn_version)
set_active_yarn(yarn_version) ==
    /\ cell # <<>>
    /\ LET platform == cell[1].platform
           dirty == platform # NoPlatform /\ platform[1].yarn # yarn_version
           after == IF dirty THEN <<[platform[1] EXCEPT !.yarn = yarn_version]>>
                    ELSE platform
       IN  Commit("set_active_yarn", <<yarn_version>>, after, dirty)

\* set_active_npm that marks the state dirty outside the `if let Some`
set_active_npm_always_dirty(npm_version) ==
    /\ cell # <<>>
    /\ LET platform == cell[1].platform
           changed == platform # NoPlatform /\ platform[1].npm # npm_version
           after == IF changed THEN <<[platform[1] EXCEPT !.npm = npm_version]>>
                    ELSE platform
       IN  Commit("set_active_npm", <<npm_version>>, after, TRUE)

\* Toolchain::set_active_npm(npm_version)
set_active_npm(npm_version) ==
    /\ cell # <<>>
    /\ LET platform == cell[1].platform
           dirty == platform # NoPlatform /\ platform[1].npm # npm_version
           after == IF dirty THEN <<[platform[1] EXCEPT !.npm = npm_version]>>
                    ELSE platform
       IN  Commit("set_active_npm", <<npm_version>>, after, dirty)

\* Toolchain::save called by the owner of the Toolchain
Save ==
    /\ cell # <<>>
    /\ \E io \in SaveIo :
        LET s == save(cell[1].platform, io)
        IN  /\ file' = s.file
            /\ allOk' = (allOk /\ s.res = "Ok")
            /\ unsaved' = FALSE
            /\ last' = Call("save", <<>>, s.res, TRUE, s.disk, FALSE, <<>>)
            /\ UNCHANGED <<cell, dataDir, created, shown>>

\* the calls of the path functions of path/windows.rs: <<function, arguments>>
PathCalls ==
    {<<f, <<>>>> : f \in {"default_notion_home", "shim_executable", "notion_file"}}
    \cup {<<"node_image_bin_dir", <<VersionStr(node), VersionStr(npm)>>>> :
              node \in Versions, npm \in Versions}
    \cup {<<"shim_file", <<tool>>>> : tool \in Tools}

\* a call of one of the path functions of path/windows.rs
PathCall ==
    \E c \in PathCalls :
        LET f == c[1]
            r == CASE f = "default_notion_home" -> default_notion_home
                   [] f = "node_image_bin_dir" -> node_image_bin_dir(c[2][1], c[2][2])
                   [] f = "shim_executable" -> shim_executable
                   [] f = "notion_file" -> notion_file
                   [] f = "shim_file" -> shim_file(c[2][1])
        IN  /\ last' = Call(f, <<>>, r.res, FALSE, "none", FALSE, r.path)
            /\ UNCHANGED <<file, cell, dataDir, created, allOk, unsaved, shown>>

\* the OS starts or stops reporting a local data directory
DataDirChange ==
    /\ dataDir' = ~dataDir
    /\ last' = Call("env", <<>>, "Ok", FALSE, "none", FALSE, <<>>)
    /\ UNCHANGED <<file, cell, created, allOk, unsaved, shown>>

\* the platform files a process can find: none, an empty file, a text that does
\* not parse, or a JSON text of a platform document
InitFiles ==
    {Absent, <<"">>}
    \cup {<<t>> : t \in CorruptTexts}
    \cup {<<t>> : t \in JsonDocuments}

Init ==
    /\ file \in InitFiles
    /\ cell = <<>>
    /\ dataDir = TRUE
    /\ last = NoCall
    /\ created = FALSE
    /\ allOk = TRUE
    /\ unsaved = TRUE
    /\ shown = NotShown

\* the toolchain store of one machine whose local data directory is there
Next ==
    \/ NewProcess
    \/ get
    \/ get_mut
    \/ \E runtime \in Versions, npm \in Versions : set_active_node(runtime, npm)
    \/ \E v \in Versions : set_active_yarn(v)
    \/ \E v \in Versions : set_active_npm(v)
    \/ Save

Spec == Init /\ [][Next]_vars

\* the platform files of the machine whose local data directory may be missing
HomeFiles == {Absent, <<"">>, <<"{}">>}

HomeInit ==
    /\ file \in HomeFiles
    /\ cell = <<>>
    /\ dataDir \in BOOLEAN
    /\ last = NoCall
    /\ created = FALSE
    /\ allOk = TRUE
    /\ unsaved = TRUE
    /\ shown = NotShown

\* the path functions, the load and the save while the OS answer may change
HomeNext ==
    \/ NewProcess
    \/ get
    \/ get_mut
    \/ \E runtime \in Versions, npm \in Versions : set_active_node(runtime, npm)
    \/ Save
    \/ PathCall
    \/ DataDirChange

HomeSpec == HomeInit /\ [][HomeNext]_vars

----------------------------------------------------------------------------
(* Error taxonomy *)

\* the ten values of notion_fail::ExitCode
ExitCodes ==
    {"UnknownError", "InvalidArguments", "ExecutionFailure", "NotYetImplemented",
     "FileSystemError", "NetworkError", "NoVersionMatch", "EnvironmentError",
     "ConfigurationError", "ExecutableNotFound"}

RECURSIVE Letters(_)
Letters(n) == IF n = 0 THEN "" ELSE Letters(n - 1) \o "a"

\* the values of a payload field: a String, or the Display text of a ToolSpec,
\* a VersionSpec or an ExitStatus
Payloads == {Letters(n) : n \in 0..MaxPayloadLen}

\* enum ErrorDetails: each variant with the number of its payload fields,
\* in the order of their declaration
Fields ==
       "BinaryAlreadyInstalled" :> 3
    @@ "BinaryExecError" :> 1
    @@ "CannotPinPackage" :> 0
    @@ "CliParseError" :> 0
    @@ "CommandNotImplemented" :> 1
    @@ "CouldNotDetermineTool" :> 0
    @@ "CreateDirError" :> 2
    @@ "DepPackageReadError" :> 1
    @@ "DeprecatedCommandError" :> 2
    @@ "DownloadToolNetworkError" :> 3
    @@ "DownloadToolNotFound" :> 1
    @@ "InvalidHookCommand" :> 1
    @@ "NoBinPlatform" :> 1
    @@ "NodeVersionNotFound" :> 1
    @@ "NoGlobalInstalls" :> 0
    @@ "NoHomeEnvironmentVar" :> 0
    @@ "NoLocalDataDir" :> 0
    @@ "NoPackageExecutables" :> 0
    @@ "NoPackageFound" :> 2
    @@ "NoPinnedNodeVersion" :> 0
    @@ "NoSuchTool" :> 1
    @@ "NotInPackage" :> 0
    @@ "NoToolChain" :> 1
    @@ "NoVersionsFound" :> 0
    @@ "NpxNotAvailable" :> 1
    @@ "PackageInstallFailed" :> 2
    @@ "PackageInstallIoError" :> 1
    @@ "PackageReadError" :> 1
    @@ "PackageUnpackError" :> 0
    @@ "PathError" :> 0
    @@ "RegistryFetchError" :> 1
    @@ "SymlinkError" :> 1
    @@ "ToolNotImplemented" :> 0
    @@ "UnrecognizedShell" :> 1
    @@ "UnspecifiedPostscript" :> 0
    @@ "UnspecifiedShell" :> 0
    @@ "VersionParseError" :> 1
    @@ "YarnVersionNotFound" :> 1

Variants == DOMAIN Fields

RECURSIVE Tuples(_)
\* the tuples of k payload values
Tuples(k) ==
    IF k = 0 THEN {<<>>}
    ELSE {Append(t, x) : t \in Tuples(k - 1), x \in Payloads}

\* the ErrorDetails values
ErrorDetails ==
    UNION {{[variant |-> v, payload |-> t] : t \in Tuples(Fields[v])} : v \in Variants}

\* <ErrorDetails as fmt::Display>::fmt (a TLA+ string cannot hold the grave
\* accent of the source's templates: an apostrophe stands for it)
Display(e) ==
    LET p == e.payload
        v == e.variant
    IN  CASE v = "BinaryAlreadyInstalled" ->
                "Conflict with bin '" \o p[1] \o "' already installed by '" \o p[2] \o "' version " \o p[3]
          [] v = "BinaryExecError" ->
                p[1]
          [] v = "CannotPinPackage" ->
                "Only node, yarn, and npm can be pinned in a project"
          [] v = "CliParseError" ->
                "There was a problem parsing the command line input"
          [] v = "CommandNotImplemented" ->
                "command '" \o p[1] \o "' is not yet implemented"
          [] v = "CouldNotDetermineTool" ->
                "Tool name could not be determined"
          [] v = "CreateDirError" ->
                "Could not create directory " \o p[1] \o ": " \o p[2]
          [] v = "DepPackageReadError" ->
                "Could not read dependent package info: " \o p[1]
          [] v = "DeprecatedCommandError" ->
                "The subcommand '" \o p[1] \o "' is deprecated.\n" \o p[2]
          [] v = "DownloadToolNetworkError" ->
                "Failed to download " \o p[1] \o " from " \o p[2] \o "\n" \o p[3]
          [] v = "DownloadToolNotFound" ->
                p[1] \o " not found"
          [] v = "InvalidHookCommand" ->
                "Invalid hook command: '" \o p[1] \o "'"
          [] v = "NoBinPlatform" ->
                "Platform info for executable '" \o p[1] \o "' is missing"
          [] v = "NodeVersionNotFound" ->
                "No Node version found for " \o p[1]
          [] v = "NoGlobalInstalls" ->
                "\nGlobal package installs are not recommended.\n\nConsider using 'notion install' to add a package to your toolchain (see 'notion help install' for more info)."
          [] v = "NoHomeEnvironmentVar" ->
                "environment variable 'HOME' is not set"
          [] v = "NoLocalDataDir" ->
                "Windows LocalAppData directory not found"
          [] v = "NoPackageExecutables" ->
                "Package has no binaries or executables - nothing to do"
          [] v = "NoPackageFound" ->
                "No version of '" \o p[1] \o "' found for " \o p[2]
          [] v = "NoPinnedNodeVersion" ->
                "There is no pinned node version for this project"
          [] v = "NoSuchTool" ->
                "\nNo " \o p[1] \o " version selected.\n\nSee 'notion help pin' for help adding " \o p[1] \o " to a project toolchain.\n\nSee 'notion help install' for help adding " \o p[1] \o " to your personal toolchain."
          [] v = "NotInPackage" ->
                "Not in a node package"
          [] v = "NoToolChain" ->
                "No toolchain available to run " \o p[1]
          [] v = "NoVersionsFound" ->
                "no versions found"
          [] v = "NpxNotAvailable" ->
                "\n'npx' is only available with npm >= 5.2.0\n\nThis project is configured to use version " \o p[1] \o " of npm."
          [] v = "PackageInstallFailed" ->
                "Command '" \o p[1] \o "' failed with status " \o p[2]
          [] v = "PackageInstallIoError" ->
                "Error executing package install command: " \o p[1]
          [] v = "PackageReadError" ->
                "Could not read package info: " \o p[1]
          [] v = "PackageUnpackError" ->
                "Package unpack error: Could not determine unpack directory name"
          [] v = "PathError" ->
                "'path' internal error"
          [] v = "RegistryFetchError" ->
                "Could not fetch public registry\n" \o p[1]
          [] v = "SymlinkError" ->
                p[1]
          [] v = "ToolNotImplemented" ->
                "this tool is not yet implemented"
          [] v = "UnrecognizedShell" ->
                "Unrecognized shell: " \o p[1]
          [] v = "UnspecifiedPostscript" ->
                "Notion postscript file not specified"
          [] v = "UnspecifiedShell" ->
                "Notion shell not specified"
          [] v = "VersionParseError" ->
                p[1]
          [] v = "YarnVersionNotFound" ->
                "No Yarn version found for " \o p[1]

\* <ErrorDetails as NotionFail>::exit_code
exit_code(e) ==
    LET v == e.variant
    IN  CASE v = "BinaryAlreadyInstalled" -> "FileSystemError"
          [] v = "BinaryExecError" -> "ExecutionFailure"
          [] v = "CannotPinPackage" -> "InvalidArguments"
          [] v = "CliParseError" -> "UnknownError"
          [] v = "CommandNotImplemented" -> "NotYetImplemented"
          [] v = "CouldNotDetermineTool" -> "UnknownError"
          [] v = "CreateDirError" -> "FileSystemError"
          [] v = "DepPackageReadError" -> "FileSystemError"
          [] v = "DeprecatedCommandError" -> "InvalidArguments"
          [] v = "DownloadToolNetworkError" -> "NetworkError"
          [] v = "DownloadToolNotFound" -> "NoVersionMatch"
          [] v = "InvalidHookCommand" -> "UnknownError"
          [] v = "NoBinPlatform" -> "ExecutionFailure"
          [] v = "NodeVersionNotFound" -> "NoVersionMatch"
          [] v = "NoGlobalInstalls" -> "InvalidArguments"
          [] v = "NoHomeEnvironmentVar" -> "EnvironmentError"
          [] v = "NoLocalDataDir" -> "EnvironmentError"
          [] v = "NoPackageExecutables" -> "InvalidArguments"
          [] v = "NoPackageFound" -> "NoVersionMatch"
          [] v = "NoPinnedNodeVersion" -> "ConfigurationError"
          [] v = "NoSuchTool" -> "NoVersionMatch"
          [] v = "NotInPackage" -> "ConfigurationError"
          [] v = "NoToolChain" -> "ExecutionFailure"
          [] v = "NoVersionsFound" -> "NoVersionMatch"
          [] v = "NpxNotAvailable" -> "ExecutableNotFound"
          [] v = "PackageInstallFailed" -> "FileSystemError"
          [] v = "PackageInstallIoError" -> "FileSystemError"
          [] v = "PackageReadError" -> "FileSystemError"
          [] v = "PackageUnpackError" -> "ConfigurationError"
          [] v = "PathError" -> "UnknownError"
          [] v = "RegistryFetchError" -> "NetworkError"
          [] v = "SymlinkError" -> "FileSystemError"
          [] v = "ToolNotImplemented" -> "ExecutableNotFound"
          [] v = "UnrecognizedShell" -> "EnvironmentError"
          [] v = "UnspecifiedPostscript" -> "EnvironmentError"
          [] v = "UnspecifiedShell" -> "EnvironmentError"
          [] v = "VersionParseError" -> "NoVersionMatch"
          [] v = "YarnVersionNotFound" -> "NoVersionMatch"

\* an error is reported: its message is rendered and its exit code taken
Report ==
    /\ \E e \in ErrorDetails :
           shown' = [variant |-> e.variant, payload |-> e.payload,
                     message |-> Display(e), code |-> exit_code(e)]
    /\ UNCHANGED <<file, cell, dataDir, last, created, allOk, unsaved>>

ErrorInit ==
    /\ file = Absent
    /\ cell = <<>>
    /\ dataDir = TRUE
    /\ last = NoCall
    /\ created = FALSE
    /\ allOk = TRUE
    /\ unsaved = TRUE
    /\ shown = NotShown

ErrorSpec == ErrorInit /\ [][Report]_vars

----------------------------------------------------------------------------
(* Properties *)

\* the cached Toolchain's platform
Platform == cell[1].platform

\* the value a mutator call is given differs from a field it sets
Differs(p, name, arg) ==
    CASE name = "set_active_node" -> p.node_runtime # arg[1] \/ p.npm # arg[2]
      [] name = "set_active_yarn" -> p.yarn # arg[1]
      [] name = "set_active_npm" -> p.npm # arg[1]

\* C1, first part: on a loaded Toolchain whose platform is present, a mutator
\* calls save if and only if the value it is given differs from the current value
\* of a field it sets; a save that returns Ok has written the new platform, and
\* without a save the file is left as it was.
C1_SaveIffDiffers ==
    (cell # <<>> /\ Platform # NoPlatform /\ last'.name \in Mutators)
        => /\ last'.saved <=> Differs(Platform[1], last'.name, last'.arg)
           /\ last'.saved /\ last'.res = "Ok" => file' = <<SaveText(cell'[1].platform)>>
           /\ ~last'.saved => file' = file /\ last'.res = "Ok" /\ cell' = cell

\* C1, second part: set_active_node(v) from a platform that is absent or differs
\* from v calls save, and the same call made again right after it calls none, so
\* that the two calls make exactly one save together.
C1_SecondCallFree ==
    /\ (cell # <<>> /\ last'.name = "set_active_node"
            /\ (Platform = NoPlatform \/ Differs(Platform[1], last'.name, last'.arg)))
        => last'.saved /\ last'.writes >= 1
    /\ (last.name = "set_active_node" /\ last'.name = "set_active_node"
            /\ last'.arg = last.arg)
        => ~last'.saved /\ last'.writes = (IF last.saved THEN 1 ELSE 0)

\* C1: a mutator on a present platform saves iff the given value differs from a
\* field it sets; set_active_node(v) twice in a row saves exactly once, and
\* set_active_yarn(y) with yarn already y saves nothing.
C1_Theorem ==
    /\ [][C1_SaveIffDiffers /\ C1_SecondCallFree]_vars
    /\ [](last.name = "set_active_node" /\ last.repeat => ~last.saved /\ last.writes <= 1)

\* set_active_node was called twice in a row with the same pair: one save in all
C1_Witness ==
    /\ last.name = "set_active_node" /\ last.repeat /\ last.res = "Ok"
    /\ last.writes = 1 /\ ~last.saved
    /\ file = <<SaveText(Platform)>>

\* C2: with the platform absent, set_active_yarn and set_active_npm change
\* nothing: the platform stays absent, save is not called, the file is left as it
\* was and the call returns Ok.
C2_Theorem ==
    [][(cell # <<>> /\ Platform = NoPlatform
            /\ last'.name \in {"set_active_yarn", "set_active_npm"})
        => /\ cell' = cell
           /\ file' = file
           /\ ~last'.saved /\ last'.disk = "none"
           /\ last'.res = "Ok"]_vars

\* set_active_npm returned from a Toolchain without a platform
C2_Witness ==
    /\ cell # <<>> /\ Platform = NoPlatform
    /\ last.name = "set_active_npm" /\ last.res = "Ok" /\ ~last.saved

\* what Toolchain::current of a fresh process reads from the file as it is
FreshLoad == current("ok")

\* C3, first part: set_active_node(r, n) on a Toolchain without a platform calls
\* save and leaves the platform (r, n, no yarn); when it returns Ok a fresh load
\* reads that platform from the file.
C3_FirstNode ==
    (cell # <<>> /\ Platform = NoPlatform /\ last'.name = "set_active_node")
        => /\ last'.saved
           /\ cell'[1].platform = <<[node_runtime |-> last'.arg[1],
                                     npm |-> last'.arg[2], yarn |-> None]>>
           /\ last'.res = "Ok" =>
                /\ last'.disk = "written"
                /\ FreshLoad'.res = "Ok"
                /\ FreshLoad'.toolchain = cell'

\* C3: set_active_node on "no platform" always saves and leaves (r, n, no yarn),
\* which a fresh load reads back; and as long as every mutator and save called on
\* the Toolchain returned Ok, a fresh load of the file yields the in-memory platform.
C3_Theorem ==
    /\ [][C3_FirstNode]_vars
    /\ [](cell # <<>> /\ allOk => FreshLoad.res = "Ok" /\ FreshLoad.toolchain = cell)

\* the first save after a load that created the file was a set_active_node
C3_Witness ==
    /\ created /\ cell # <<>> /\ allOk
    /\ last.name = "set_active_node" /\ last.first /\ last.res = "Ok"
    /\ Platform = <<[node_runtime |-> 1, npm |-> 2, yarn |-> None]>>
    /\ file = <<SaveText(Platform)>>

Accessors == {"get", "get_mut"}

\* C4: an access to a filled cell returns the cached Toolchain without running
\* the load or touching the file; an access to an empty cell runs the load, fills
\* the cell exactly when the load returns Ok and leaves it empty otherwise, so the
\* next access loads again; a filled cell stays filled for the life of the
\* process, so the load completes successfully at most once.
C4_Theorem ==
    [][/\ (cell # <<>> /\ last'.name \in Accessors)
            => ~last'.ran /\ last'.res = "Ok" /\ cell' = cell /\ file' = file
       /\ (cell = <<>> /\ last'.name \in Accessors)
            => /\ last'.ran
               /\ last'.res = "Ok" <=> cell' # <<>>
               /\ last'.res = "Ok" => cell' = FreshLoad'.toolchain
       /\ (cell # <<>> /\ last'.name # "new") => cell' # <<>>
       /\ (last'.ran /\ last'.res = "Ok" /\ last' # last) => cell = <<>>]_vars

\* a get that failed was followed by a get that ran the load again and succeeded
C4_Witness ==
    /\ last.name = "get" /\ last.repeat /\ last.ran /\ last.res = "Ok"
    /\ cell # <<>>

\* C5: a load from an absent or empty file whose file operations succeed returns
\* Ok with no platform; a load from a non-empty file that does not parse returns
\* an error, leaves the cell empty and the file as it was.
C5_Theorem ==
    [][(cell = <<>> /\ last'.name \in Accessors)
        => /\ (file \in {Absent, <<"">>} /\ last'.res \notin {"IoError", "NoLocalDataDir"})
                => /\ last'.res = "Ok"
                   /\ cell' = <<[platform |-> NoPlatform]>>
           /\ (file # Absent /\ file[1] # "" /\ ~from_json(file[1]).ok)
                => /\ last'.res # "Ok"
                   /\ last'.res \notin {"IoError", "NoLocalDataDir"}
                        => last'.res = "ParseError"
                   /\ cell' = <<>>
                   /\ file' = file]_vars

\* a load of a non-empty file that does not parse returned the parse error
C5_Witness ==
    /\ last.name \in Accessors /\ last.ran /\ last.res = "ParseError"
    /\ cell = <<>> /\ file # Absent /\ file[1] # ""

\* the texts save writes
SavedFiles == {<<SaveText(p)>> : p \in OptPlatforms}

\* a Toolchain loaded from a file that was there, with no save called since
LoadedUnsaved == cell # <<>> /\ unsaved /\ ~created

\* C6 as stated: for every valid existing platform file, load then save without
\* a mutation in between leaves the file byte-identical.
C6_Original ==
    [][(LoadedUnsaved /\ last'.name = "save" /\ last'.res = "Ok") => file' = file]_vars

\* C6, amended: load then save without a mutation in between leaves the file
\* holding the text save writes for the loaded platform; the file is
\* byte-identical when it held a text written by save, and is rewritten otherwise.
C6_Theorem ==
    [][(LoadedUnsaved /\ last'.name = "save" /\ last'.res = "Ok")
        => /\ file' = <<SaveText(Platform)>>
           /\ file \in SavedFiles <=> file' = file]_vars

\* a save right after the load of a file written by save left it as it was
C6_Witness ==
    /\ ~created /\ cell # <<>> /\ Platform # NoPlatform
    /\ last.name = "save" /\ last.first /\ last.res = "Ok" /\ last.disk = "same"

\* C7 as stated: after a load that found the file absent, and any number of
\* no-op mutator calls, there is no platform and the file is still absent.
C7_Original ==
    (created /\ cell # <<>> /\ unsaved) => (Platform = NoPlatform /\ file = Absent)

\* C7, amended: a load that finds the file absent creates it empty and yields no
\* platform; the no-op mutator calls that follow call no save and leave the file
\* empty (zero bytes).
C7_Theorem ==
    /\ []((created /\ cell # <<>> /\ unsaved)
            => (Platform = NoPlatform /\ file = <<"">>))
    /\ [][/\ (file = Absent /\ cell = <<>> /\ last'.ran /\ last'.res = "Ok")
                => created' /\ file' = <<"">> /\ last'.disk = "created"
          /\ (created /\ cell # <<>> /\ unsaved
                /\ last'.name \in {"set_active_yarn", "set_active_npm"})
                => ~last'.saved /\ unsaved' /\ file' = file /\ last'.res = "Ok"]_vars

\* a no-op set_active_yarn after a load that created the file
C7_Witness ==
    /\ created /\ cell # <<>> /\ unsaved /\ Platform = NoPlatform
    /\ last.name = "set_active_yarn" /\ ~last.saved /\ file = <<"">>

UserMisuse == {"CannotPinPackage", "InvalidHookCommand", "DeprecatedCommandError"}

\* C8 as stated: every user-misuse variant (CannotPinPackage, InvalidHookCommand,
\* DeprecatedCommandError) has exit code InvalidArguments.
C8_Original ==
    shown.variant \in UserMisuse => shown.code = "InvalidArguments"

\* C9 as stated: for every variant and every payload, empty strings included, the
\* rendered message is non-empty and the exit code is one of the ten ExitCode values.
C9_Original ==
    shown.variant # "" => (shown.message # "" /\ shown.code \in ExitCodes)

PathNames == {c[1] : c \in PathCalls}

\* C10: while the OS reports no local data directory, default_notion_home and the
\* derived path functions return NoLocalDataDir and no path, a load returns
\* NoLocalDataDir and leaves the cell empty, a save returns NoLocalDataDir, and no
\* call creates or writes the file.
C10_Theorem ==
    /\ [](~dataDir
            => /\ last.name \in PathNames
                    => last.res = "NoLocalDataDir" /\ last.out = <<>>
               /\ last.ran
                    => last.res = "NoLocalDataDir" /\ cell = <<>> /\ last.disk = "none"
               /\ last.saved
                    => last.res = "NoLocalDataDir" /\ last.disk = "none")
    /\ [][(~dataDir /\ ~dataDir') => file' = file]_vars

\* a save was refused for want of the local data directory
C10_Witness ==
    /\ ~dataDir /\ cell # <<>>
    /\ last.name = "save" /\ last.res = "NoLocalDataDir" /\ last.disk = "none"

\* the platform a mutator call leaves in memory
Applied(platform, name, arg) ==
    CASE name = "set_active_node" ->
            IF platform = NoPlatform
            THEN <<[node_runtime |-> arg[1], npm |-> arg[2], yarn |-> None]>>
            ELSE <<[platform[1] EXCEPT !.node_runtime = arg[1], !.npm = arg[2]]>>
      [] name = "set_active_yarn" ->
            IF platform = NoPlatform THEN platform
            ELSE <<[platform[1] EXCEPT !.yarn = arg[1]]>>
      [] name = "set_active_npm" ->
            IF platform = NoPlatform THEN platform
            ELSE <<[platform[1] EXCEPT !.npm = arg[1]]>>

\* C11: a mutator whose save fails returns the error with the in-memory platform
\* already holding the new value, not the old one; the same call made again
\* right after it finds nothing changed, calls no save, leaves the file as it was
\* and returns Ok.
C11_Theorem ==
    [][/\ (cell # <<>> /\ last'.name \in Mutators /\ last'.saved /\ last'.res # "Ok")
            => /\ cell'[1].platform = Applied(Platform, last'.name, last'.arg)
               /\ cell' # cell
       /\ (last.name \in Mutators /\ last.res # "Ok"
                /\ last'.name = last.name /\ last'.arg = last.arg)
            => /\ ~last'.saved /\ last'.disk = "none"
               /\ last'.res = "Ok"
               /\ file' = file
               /\ cell' = cell]_vars

\* a repeated mutator call returned Ok while the file does not hold the platform
\* that is in memory
C11_Witness ==
    /\ cell # <<>> /\ ~allOk
    /\ last.name \in Mutators /\ last.repeat /\ last.writes = 1
    /\ last.res = "Ok" /\ ~last.saved
    /\ FreshLoad.res = "Ok" /\ FreshLoad.toolchain # cell

====
